---- MODULE Spec2Model ----
(***************************************************************************)
(* Charge manager: cheapest blend of raw materials for an electric-arc     *)
(* furnace heat.  The model follows calculo_carga_eaf.py (charge design    *)
(* and correction addition), eaf_charge_gekko.py (the second charge-design *)
(* script), reports.py (totals, materials and chemistry reports) and       *)
(* charge_gekko_example.py (the variant that normalizes nothing).          *)
(*                                                                         *)
(* Numbers.  Masses (kg) and unit costs are integers.  Every other real    *)
(* (a percentage read from YAML, a fraction) is stored as an integer count *)
(* of 1/Unit, so the YAML value 0.30 (percent) is 3000 and the fraction    *)
(* 0.003 it normalizes to is 30.  A quotient a/b is never formed: the      *)
(* comparison a/b >= c with b > 0 is checked as a >= c*b, and a reported   *)
(* quotient is kept as the pair <<a, b>>.  The solver's real-valued        *)
(* decision variables range over whole kilograms.                          *)
(***************************************************************************)
EXTENDS Integers, Sequences, FiniteSets, TLC

VARIABLES
    prog,            \* which script runs: "calculo", "gekko", "adicion",
                     \* "example" (charge_gekko_example), "reports" (library call)
    materials_data,  \* the catalog, in dictionary (insertion) order
    alloy_info,      \* charge / final chemistry specification
    heat_weight,     \* target weight of the charge (kg)
    colada_peso,     \* current heat weight (addition)
    colada_quimica,  \* measured chemistry of the current heat (addition)
    pc,              \* position of the script
    built,           \* a GEKKO model object has been created
    solves,          \* number of m.solve() calls made
    solver_exc,      \* what the last m.solve() raised: "none", "infeasible", "failure"
    seed,            \* initial_solution handed to m.Var(value=...)
    vars,            \* values held by the GEKKO variables of the model
    ret_x,           \* what the caller holds as x: "unset", "vars", "None"
    success,         \* flag returned by calcular_carga / solve_optimization
    appstatus,       \* m.options.APPSTATUS after the solve (-1: not solved)
    error,           \* exception that escaped to the top level, or "none"
    totals,          \* <<>> or <<record>> printed by the totals report
    table,           \* <<>> or <<rows>> printed by the materials report
    quimica          \* <<>> or <<rows>> printed by the chemistry report

inputs == <<prog, materials_data, alloy_info, heat_weight, colada_peso, colada_quimica>>
vars_all == <<prog, materials_data, alloy_info, heat_weight, colada_peso,
              colada_quimica, pc, built, solves, solver_exc, seed, vars, ret_x, success,
              appstatus, error, totals, table, quimica>>

(***************************************************************************)
(* Bounds of the model.                                                    *)
(***************************************************************************)
MaxStock == 4
MaxWeight == 4
MaxCost == 2
MaxBest == 2

Unit == 100 * 100

(***************************************************************************)
(* Helpers.                                                                *)
(***************************************************************************)
RECURSIVE SumSeq(_)
SumSeq(s) == IF s = <<>> THEN 0 ELSE Head(s) + SumSeq(Tail(s))

Idx(s) == 1..Len(s)

RECURSIVE GCD(_, _)
GCD(a, b) == IF b = 0 THEN a ELSE GCD(b, a % b)

\* the ratio a : b in lowest terms
Ratio(a, b) == IF a = 0 /\ b = 0 THEN <<0, 0>> ELSE <<a \div GCD(a, b), b \div GCD(a, b)>>

\* dict.get(e, 0)
Get(d, e) == IF e \in DOMAIN d THEN d[e] ELSE 0

MaxOf(S) == CHOOSE m \in S : \A k \in S : k <= m
MinOf(S) == CHOOSE m \in S : \A k \in S : m <= k

\* str.lower() on the type tags that occur
Lower(s) ==
    CASE s = "Acero" -> "acero"
      [] s = "ACERO" -> "acero"
      [] s = "Returns" -> "returns"
      [] OTHER -> s

normalize_chemistry_value(value) == value \div 100

\* float(str(v).replace('%',''))/100 : a bare number and a percent-string
\* both lose the '%' (if any) and are divided by 100
ParseFraction(v) == (v.num * Unit) \div 100

\* materials_data[m].get('type', '')
TypeOf(mat) == IF "type" \in mat.keys THEN mat.type ELSE ""

(***************************************************************************)
(* Catalog and specification accessors.                                    *)
(* A material is a record; `keys` is the set of dictionary keys the YAML   *)
(* entry really has, and reading an absent key raises KeyError.            *)
(***************************************************************************)
n_materials(md) == Len(md)

elements(ai) == DOMAIN ai.min

cost(md) == [i \in Idx(md) |-> md[i].cost]
stock(md) == [i \in Idx(md) |-> md[i].stock]
mat_min(md) == [i \in Idx(md) |-> ParseFraction(md[i].min)]
mat_max(md) == [i \in Idx(md) |-> ParseFraction(md[i].max)]

min_acero_pct(ai) == IF "min_acero_pct" \in ai.keys THEN ai.min_acero_pct ELSE 0
has_max_returns(ai) == "max_returns" \in ai.keys

acero_indices(md) == {i \in Idx(md) : Lower(TypeOf(md[i])) = "acero"}
returns_indices(md) == {i \in Idx(md) : Lower(TypeOf(md[i])) = "returns"}

SumAt(S, x) == SumSeq([i \in Idx(x) |-> IF i \in S THEN x[i] ELSE 0])

\* sum(x[i]*normalize_chemistry_value(chemistry['min'].get(e,0)))
min_mix_sum(md, e, x) ==
    SumSeq([i \in Idx(md) |-> x[i] * normalize_chemistry_value(Get(md[i].chem_min, e))])
max_mix_sum(md, e, x) ==
    SumSeq([i \in Idx(md) |-> x[i] * normalize_chemistry_value(Get(md[i].chem_max, e))])

(***************************************************************************)
(* Seeding heuristic.                                                      *)
(***************************************************************************)
nominal_composition ==
    [fierro_Primera |-> (20 * Unit) \div 100,
     Retornos_CM |-> (35 * Unit) \div 100,
     chatarra_CM |-> (44 * Unit) \div 100]

nominal_composition_gekko ==
    [fierro_Primera |-> (20 * Unit) \div 100,
     Retornos_CM |-> (35 * Unit) \div 100,
     chatarra_CM |-> (44 * Unit) \div 100,
     carbon |-> 0,
     FeSi75 |-> 0]

\* nominal_amount of every material, in kg/Unit
NominalAmounts(nominal, W, md) ==
    [i \in Idx(md) |-> IF md[i].name \in DOMAIN nominal
                          THEN nominal[md[i].name] * W ELSE 0]

\* mutant: the nominal amounts as they are, without the rescaling
Seed_NoRescale(nominal, W, md) ==
    [err |-> "none",
     val |-> [i \in Idx(md) |-> <<NominalAmounts(nominal, W, md)[i], Unit>>]]

\* the seed: initial_x[i] * (heat_weight / total_weight), as <<num, den>> kg;
\* the division by total_weight raises ZeroDivisionError when it is 0
Seed(nominal, W, md) ==
    LET initial_x == NominalAmounts(nominal, W, md)
        total_weight == SumSeq(initial_x)
    IN  IF total_weight = 0
          THEN [err |-> "ZeroDivisionError", val |-> <<>>]
          ELSE [err |-> "none",
                val |-> [i \in Idx(md) |-> <<initial_x[i] * W, total_weight>>]]

solucion_inicial(W, md) == Seed(nominal_composition, W, md)

\* the seed <<num_i, den>> with num_i and den divided by their common factor
RECURSIVE GCDAll(_)
GCDAll(s) == IF s = <<>> THEN 0 ELSE GCD(Head(s), GCDAll(Tail(s)))

Lowest(val) ==
    LET g == GCDAll([i \in Idx(val) |-> val[i][1]] \o <<val[1][2]>>)
    IN  [i \in Idx(val) |-> <<val[i][1] \div g, val[i][2] \div g>>]

\* chemistry_feasible of calc_initial_solution: for every element the seed's
\* min_chem >= target_min and max_chem <= target_max (only printed)
chemistry_feasible(md, ai, W, val) ==
    LET s == Lowest(val)
    IN  \A e \in elements(ai) :
            /\ SumSeq([i \in Idx(md) |->
                    s[i][1] * normalize_chemistry_value(Get(md[i].chem_min, e))])
                  >= normalize_chemistry_value(ai.min[e]) * W * s[1][2]
            /\ SumSeq([i \in Idx(md) |->
                    s[i][1] * normalize_chemistry_value(Get(md[i].chem_max, e))])
                  <= normalize_chemistry_value(ai.max[e]) * W * s[1][2]

\* mutant: a seed that fails the diagnostic is refused
calc_initial_solution_Gated(md, ai, W) ==
    LET s == Seed(nominal_composition_gekko, W, md)
    IN  IF s.err # "none" THEN s
        ELSE IF elements(ai) # {} /\ \E i \in Idx(md) : "chemistry" \notin md[i].keys
          THEN [err |-> "KeyError", val |-> <<>>]
        ELSE IF ~chemistry_feasible(md, ai, W, s.val)
          THEN [err |-> "ValueError", val |-> <<>>]
          ELSE s

\* the chemistry diagnostic of calc_initial_solution reads
\* materials_data[m]['chemistry'] for every element of the spec
calc_initial_solution(md, ai, W) ==
    LET s == Seed(nominal_composition_gekko, W, md)
    IN  IF s.err # "none" THEN s
        ELSE IF elements(ai) # {} /\ \E i \in Idx(md) : "chemistry" \notin md[i].keys
          THEN [err |-> "KeyError", val |-> <<>>]
          ELSE s

(***************************************************************************)
(* Charge blend model: variable bounds, constraints, objective.            *)
(***************************************************************************)
\* m.Var(value=initial_solution[i], lb=0, ub=stock[i])
VarBounds(md, x) == \A i \in Idx(md) : 0 <= x[i] /\ x[i] <= stock(md)[i]

\* mutant: the total mass as a ceiling instead of an equality
RestriccionPeso_AtMost(W, x) == SumSeq(x) <= W

\* m.Equation(sum(x) == heat_weight)
RestriccionPeso(W, x) == SumSeq(x) = W

\* mutant: the floor imposed whether or not a material is tagged
RestriccionAcero_Unconditional(md, ai, W, x) ==
    SumAt(acero_indices(md), x) * Unit >= min_acero_pct(ai) * W

\* if acero_indices and min_acero_pct > 0: sum(x[i]) >= min_acero_pct*W
RestriccionAcero(md, ai, W, x) ==
    (acero_indices(md) # {} /\ min_acero_pct(ai) > 0)
        => SumAt(acero_indices(md), x) * Unit >= min_acero_pct(ai) * W

\* if returns_indices and max_returns is not None: sum(x[i]) <= max_returns*W
RestriccionReturns(md, ai, W, x) ==
    (returns_indices(md) # {} /\ has_max_returns(ai))
        => SumAt(returns_indices(md), x) * Unit <= ai.max_returns * W

\* mutant: min_mix constrained on both sides, max_mix forgotten
RestriccionQuimica_LowOnly(md, ai, W, x) ==
    \A e \in elements(ai) :
        /\ min_mix_sum(md, e, x) >= normalize_chemistry_value(ai.min[e]) * W
        /\ min_mix_sum(md, e, x) <= normalize_chemistry_value(ai.max[e]) * W

\* the four chemistry equations of every element
RestriccionQuimica(md, ai, W, x) ==
    \A e \in elements(ai) :
        /\ min_mix_sum(md, e, x) >= normalize_chemistry_value(ai.min[e]) * W
        /\ min_mix_sum(md, e, x) <= normalize_chemistry_value(ai.max[e]) * W
        /\ max_mix_sum(md, e, x) >= normalize_chemistry_value(ai.min[e]) * W
        /\ max_mix_sum(md, e, x) <= normalize_chemistry_value(ai.max[e]) * W

\* mutant: the floor of every material without its cap
RestriccionPorcentaje_NoCap(md, W, x) ==
    \A i \in Idx(md) : x[i] * Unit >= mat_min(md)[i] * W

\* x[i]/heat_weight >= mat_min[i] and x[i]/heat_weight <= mat_max[i]
RestriccionPorcentaje(md, W, x) ==
    \A i \in Idx(md) :
        /\ x[i] * Unit >= mat_min(md)[i] * W
        /\ x[i] * Unit <= mat_max(md)[i] * W

\* every constraint crear_modelelo / create_optimization_model puts in m
CargaFeasible(md, ai, W, x) ==
    /\ VarBounds(md, x)
    /\ RestriccionPeso(W, x)
    /\ RestriccionAcero(md, ai, W, x)
    /\ RestriccionReturns(md, ai, W, x)
    /\ RestriccionQuimica(md, ai, W, x)
    /\ RestriccionPorcentaje(md, W, x)

\* mutant: the objective without the unit costs
Objetivo_NoCost(md, x) == SumSeq(x)

\* m.Obj(sum(x[i]*cost[i]))
Objetivo(md, x) == SumSeq([i \in Idx(md) |-> x[i] * cost(md)[i]])

(***************************************************************************)
(* Addition blend model.                                                   *)
(***************************************************************************)
\* total_peso = colada_peso + sum(x)
total_peso(P, x) == P + SumSeq(x)

\* numerator of min_mix / max_mix: the measured chemistry enters as read
\* (colada_quimica.get(e, 0), not normalized)
adicion_min_mix_sum(md, P, q, e, x) == Get(q, e) * P + min_mix_sum(md, e, x)
adicion_max_mix_sum(md, P, q, e, x) == Get(q, e) * P + max_mix_sum(md, e, x)

\* mutant: the two commented-out equations in place of the two enforced
AdicionQuimica_Omitted(md, ai, P, q, x) ==
    \A e \in elements(ai) :
        /\ adicion_max_mix_sum(md, P, q, e, x)
              >= normalize_chemistry_value(ai.min[e]) * total_peso(P, x)
        /\ adicion_min_mix_sum(md, P, q, e, x)
              <= normalize_chemistry_value(ai.max[e]) * total_peso(P, x)

\* m.Equation(max_mix <= max) ; m.Equation(min_mix >= min)
AdicionQuimica(md, ai, P, q, x) ==
    \A e \in elements(ai) :
        /\ adicion_max_mix_sum(md, P, q, e, x)
              <= normalize_chemistry_value(ai.max[e]) * total_peso(P, x)
        /\ adicion_min_mix_sum(md, P, q, e, x)
              >= normalize_chemistry_value(ai.min[e]) * total_peso(P, x)

AdicionFeasible(md, ai, P, q, x) ==
    /\ VarBounds(md, x)
    /\ AdicionQuimica(md, ai, P, q, x)

(***************************************************************************)
(* charge_gekko_example.py: the chemistry equations on the values as read. *)
(***************************************************************************)
\* sum(x[i]*materials_data[materials[i]]['chemestry']['min'].get(e,0))
example_min_mix_sum(md, e, x) == SumSeq([i \in Idx(md) |-> x[i] * Get(md[i].chem_min, e)])
example_max_mix_sum(md, e, x) == SumSeq([i \in Idx(md) |-> x[i] * Get(md[i].chem_max, e)])

\* min_mix >= charge_min[e] ... max_mix <= charge_max[e]
ExampleQuimica(md, ai, W, x) ==
    \A e \in elements(ai) :
        /\ example_min_mix_sum(md, e, x) >= ai.min[e] * W
        /\ example_min_mix_sum(md, e, x) <= ai.max[e] * W
        /\ example_max_mix_sum(md, e, x) >= ai.min[e] * W
        /\ example_max_mix_sum(md, e, x) <= ai.max[e] * W

\* total mass, chemistry and per-material shares; no category constraint
ExampleFeasible(md, ai, W, x) ==
    /\ VarBounds(md, x)
    /\ RestriccionPeso(W, x)
    /\ ExampleQuimica(md, ai, W, x)
    /\ RestriccionPorcentaje(md, W, x)

(***************************************************************************)
(* The external solver.  m.solve() leaves in the variables a point of the  *)
(* feasible set with least objective, or raises when there is none and     *)
(* leaves its last iterate.                                                *)
(***************************************************************************)
\* the points the variables can take inside their bounds [0, stock[i]]
Grid(md) == {x \in [Idx(md) -> 0..MaxOf({md[i].stock : i \in Idx(md)} \cup {0})] :
                VarBounds(md, x)}

\* last iterate of a failed solve: any non-negative point
BestEffort(md) == [Idx(md) -> 0..MaxBest]

ArgMin(S, md) ==
    IF S = {} THEN {}
    ELSE LET best == MinOf({Objetivo(md, x) : x \in S})
         IN  {x \in S : Objetivo(md, x) = best}

ExampleFeasibleSet(md, ai, W) == {x \in Grid(md) : ExampleFeasible(md, ai, W, x)}
CargaFeasibleSet(md, ai, W) == {x \in Grid(md) : CargaFeasible(md, ai, W, x)}
AdicionFeasibleSet(md, ai, P, q) == {x \in Grid(md) : AdicionFeasible(md, ai, P, q, x)}

(***************************************************************************)
(* Inputs: the catalogs, specifications and weights the scripts are run    *)
(* on.  YAML percentages are written here in 1/Unit: 5000 is 0.5 (%).      *)
(***************************************************************************)
AllKeys == {"cost", "stock", "min", "max", "type", "chemistry"}

Num(n) == [form |-> "num", num |-> n]
Pct(n) == [form |-> "pct", num |-> n]
\* a value that is itself a dictionary, with its keys in order
Map(order, f) == [form |-> "map", num |-> 0, order |-> order, map |-> f]

fierro_Primera(c, s) ==
    [name |-> "fierro_Primera", keys |-> AllKeys, cost |-> c, stock |-> s,
     min |-> Num(0), max |-> Num(100), type |-> "Acero",
     chem_min |-> ("C" :> 5000), chem_max |-> ("C" :> 6000)]

Retornos_CM(c, s) ==
    [name |-> "Retornos_CM", keys |-> AllKeys, cost |-> c, stock |-> s,
     min |-> Num(0), max |-> Num(100), type |-> "returns",
     chem_min |-> ("C" :> 1000 @@ "Mn" :> 2000),
     chem_max |-> ("C" :> 2000 @@ "Mn" :> 4000)]

carbon(c, s) ==
    [name |-> "carbon", keys |-> AllKeys \ {"type"}, cost |-> c, stock |-> s,
     min |-> Num(0), max |-> Num(100), type |-> "",
     chem_min |-> ("C" :> 990000), chem_max |-> ("C" :> 1000000)]

FeMn(c, s) ==
    [name |-> "FeMn", keys |-> AllKeys \ {"type"}, cost |-> c, stock |-> s,
     min |-> Num(0), max |-> Num(100), type |-> "",
     chem_min |-> ("Mn" :> 5000), chem_max |-> ("Mn" :> 6000)]

Stocks == {MaxStock \div 2, MaxStock}
Costs == 1..MaxCost
Weights == {MaxWeight \div 2, MaxWeight}

\* the catalog the variations below start from
BaseCatalog == <<fierro_Primera(2, MaxStock), Retornos_CM(1, MaxStock)>>

\* material i of the catalog without dictionary key k
DropKey(md, i, k) == [md EXCEPT ![i].keys = @ \ {k}]

\* material i with the given min / max share
WithShare(md, i, lo, hi) == [md EXCEPT ![i].min = lo, ![i].max = hi]

WellFormedCatalogs ==
    {<<fierro_Primera(c1, s), Retornos_CM(c2, s)>> : c1 \in Costs, c2 \in Costs, s \in Stocks}
    \cup {<<Retornos_CM(1, MaxStock), fierro_Primera(c, MaxStock)>> : c \in Costs}
    \cup {<<fierro_Primera(2, MaxStock), Retornos_CM(1, MaxStock), carbon(1, MaxStock \div 2)>>}
    \cup {<<fierro_Primera(2, MaxStock), FeMn(1, MaxStock)>>}
    \cup {<<Retornos_CM(1, MaxStock)>>}
    \cup {WithShare(BaseCatalog, i, lo, hi) :
             i \in 1..2, lo \in {Num(25), Pct(25)}, hi \in {Num(75), Pct(75)}}

\* none of these materials is in the nominal recipe of calculo_carga_eaf
UnseededCatalogs ==
    {<<carbon(c, MaxStock)>> : c \in Costs}
    \cup {<<FeMn(1, MaxStock), carbon(1, MaxStock)>>, <<FeMn(1, MaxStock)>>}

\* a material without its cost, stock, min, max or chemistry
IncompleteCatalogs ==
    {DropKey(BaseCatalog, i, k) : i \in 1..2, k \in AllKeys \ {"type"}}

\* a material whose fraction_min exceeds its fraction_max
InvertedCatalogs ==
    {WithShare(BaseCatalog, i, Num(75), Num(50)) : i \in 1..2}

\* a material whose chemistry 'min' of an element exceeds its 'max'
InvertedChemistryCatalogs ==
    {<<[fierro_Primera(2, MaxStock) EXCEPT !.chem_min = ("C" :> 5000),
                                          !.chem_max = ("C" :> 3500)]>>}

Catalogs == WellFormedCatalogs \cup UnseededCatalogs \cup IncompleteCatalogs
            \cup InvertedCatalogs \cup InvertedChemistryCatalogs

Bounds(lo, hi, extra) == [min |-> lo, max |-> hi, keys |-> extra,
                          min_acero_pct |-> Unit \div 2, max_returns |-> Unit \div 2]

ChemistryTargets ==
    { <<("C" :> 3000), ("C" :> 4000)>>,
      <<("C" :> 4500), ("C" :> 4600)>>,
      <<("C" :> 0), ("C" :> 10000)>>,
      <<("C" :> 0 @@ "Mn" :> 0), ("C" :> 10000 @@ "Mn" :> 2000)>>,
      <<("C" :> 0), ("C" :> 1000000)>> }

\* "chemistry" in keys: the specification also has a 'chemistry' entry, the
\* key print_quimica_carga reads the bounds from
Alloys ==
    {Bounds(t[1], t[2], k) : t \in ChemistryTargets,
                             k \in SUBSET {"min_acero_pct", "max_returns"}}
    \cup {Bounds(t[1], t[2], {"chemistry"}) : t \in ChemistryTargets}

\* Scenario A: two materials, C in [0.3%, 0.4%], steel floor 0.5, 100 kg
ScenarioA ==
    [md |-> <<[fierro_Primera(2, 100) EXCEPT !.type = "acero"], Retornos_CM(1, 100)>>,
     ai |-> Bounds(("C" :> 3000), ("C" :> 4000), {"min_acero_pct"}),
     W  |-> 100]

\* Scenario B: the catalog of Scenario A, target C tightened to [0.45%, 0.46%]
ScenarioB ==
    [md |-> ScenarioA.md,
     ai |-> Bounds(("C" :> 4500), ("C" :> 4600), {"min_acero_pct"}),
     W  |-> ScenarioA.W]

\* Scenario C: 12000 kg at C 0.30%, target [0.28%, 0.32%], carbon at 5/kg
ScenarioC ==
    [md |-> <<carbon(5, MaxStock)>>,
     ai |-> Bounds(("C" :> 2800), ("C" :> 3200), {}),
     P  |-> 12000,
     q  |-> ("C" :> 3000)]

\* dictionaries of the shape calcular_quimica_solucion reads: an entry
\* "chemistry" holding the bounds, and one entry per element name
ChemistryEntry(order, lo, hi) ==
    [name |-> "chemistry", keys |-> {"min", "max"}, cost |-> 0, stock |-> 0,
     min |-> Map(order, lo), max |-> Map(order, hi), type |-> "",
     chem_min |-> <<>>, chem_max |-> <<>>]

ElementEntry(nm, lo, hi) ==
    [name |-> nm, keys |-> {"chemistry"}, cost |-> 0, stock |-> 0,
     min |-> Num(0), max |-> Num(100), type |-> "",
     chem_min |-> lo, chem_max |-> hi]

ReportDicts ==
    { <<ChemistryEntry(<<"C">>, ("C" :> 0), ("C" :> 10000)),
        ElementEntry("C", ("C" :> 1000), ("C" :> 2000))>>,
      <<ChemistryEntry(<<"C", "Mn">>, ("C" :> 0 @@ "Mn" :> 0), ("C" :> 10000 @@ "Mn" :> 2000)),
        ElementEntry("C", ("C" :> 5000), ("C" :> 6000)),
        ElementEntry("Mn", ("C" :> 1000 @@ "Mn" :> 2000), ("C" :> 2000 @@ "Mn" :> 4000))>>,
      <<ChemistryEntry(<<"C", "Mn">>, ("C" :> 0 @@ "Mn" :> 0), ("C" :> 10000 @@ "Mn" :> 2000)),
        ElementEntry("C", ("C" :> 5000), ("C" :> 6000))>>,
      <<ChemistryEntry(<<"C", "Mn">>, ("C" :> 0 @@ "Mn" :> 0), ("C" :> 10000 @@ "Mn" :> 2000)),
        ElementEntry("C", ("C" :> 5000), ("C" :> 6000)),
        ElementEntry("Mn", ("C" :> 1000 @@ "Mn" :> 2000), ("C" :> 2000 @@ "Mn" :> 4001))>>,
      <<ChemistryEntry(<<>>, <<>>, <<>>)>> }

\* the catalog with the chemistry of every material under the key the
\* example script reads
Chemestry(md) ==
    [i \in Idx(md) |-> [md[i] EXCEPT !.keys = (@ \ {"chemistry"}) \cup {"chemestry"}]]

ExampleCatalogs ==
    {Chemestry(md) : md \in {<<fierro_Primera(c1, s), Retornos_CM(c2, s)>> :
                                 c1 \in Costs, c2 \in Costs, s \in Stocks}}
    \cup {Chemestry(WithShare(BaseCatalog, 1, Pct(25), Num(75))), BaseCatalog,
          DropKey(Chemestry(BaseCatalog), 2, "stock")}

\* measured chemistry of the current heat, as main supplies it (percent)
Coladas == { ("C" :> 3000), ("C" :> 3000 @@ "Mn" :> 1000), ("Mn" :> 3000) }

(***************************************************************************)
(* Initial state: the YAML files are loaded, nothing has run.              *)
(***************************************************************************)
Fresh ==
    /\ built = FALSE
    /\ solves = 0
    /\ solver_exc = "none"
    /\ seed = <<>>
    /\ success = "unset"
    /\ appstatus = -1
    /\ error = "none"
    /\ totals = <<>>
    /\ table = <<>>
    /\ quimica = <<>>

InitCarga ==
    /\ prog \in {"calculo", "gekko"}
    /\ \/ /\ materials_data \in Catalogs
          /\ alloy_info \in Alloys
          /\ heat_weight \in Weights
       \/ /\ materials_data = ScenarioA.md
          /\ alloy_info = ScenarioA.ai
          /\ heat_weight = ScenarioA.W
       \/ /\ materials_data = ScenarioB.md
          /\ alloy_info = ScenarioB.ai
          /\ heat_weight = ScenarioB.W
    /\ colada_peso = 0
    /\ colada_quimica = <<>>
    /\ vars = <<>>
    /\ ret_x = "unset"
    /\ pc = IF prog = "calculo" THEN "crear_modelelo" ELSE "create_optimization_model"

InitAdicion ==
    /\ prog = "adicion"
    /\ \/ /\ materials_data \in Catalogs
          /\ alloy_info \in {a \in Alloys : a.keys \in {{}, {"min_acero_pct", "max_returns"}}}
          /\ colada_peso \in Weights
          /\ colada_quimica \in Coladas
       \/ /\ materials_data = ScenarioC.md
          /\ alloy_info = ScenarioC.ai
          /\ colada_peso = ScenarioC.P
          /\ colada_quimica = ScenarioC.q
    /\ heat_weight = 0
    /\ vars = <<>>
    /\ ret_x = "unset"
    /\ pc = "calcular_adicion_optima"

\* reports.print_quimica_carga called with an assignment of the caller's
InitReports ==
    /\ prog = "reports"
    /\ materials_data \in ReportDicts \cup {BaseCatalog}
    /\ alloy_info \in {a \in Alloys : "chemistry" \in a.keys}
    /\ heat_weight = 0
    /\ colada_peso = 0
    /\ colada_quimica = <<>>
    /\ vars \in UNION {[1..k -> 0..MaxBest] : k \in 1..2}
    /\ ret_x = "vars"
    /\ pc = "print_quimica_carga"

\* charge_gekko_example.py, run as a script
InitExample ==
    /\ prog = "example"
    /\ materials_data \in ExampleCatalogs
    /\ alloy_info \in {a \in Alloys : a.keys = {}}
    /\ heat_weight \in Weights
    /\ colada_peso = 0
    /\ colada_quimica = <<>>
    /\ vars = <<>>
    /\ ret_x = "unset"
    /\ pc = "example_build"

Init == Fresh /\ (InitCarga \/ InitAdicion \/ InitReports \/ InitExample)

(***************************************************************************)
(* crear_modelelo / create_optimization_model.                             *)
(***************************************************************************)
\* the list comprehensions over cost, stock, min, max: the first absent key
\* raises KeyError before the seed is computed
\* (float() of a value that is no number raises ValueError)
ShareError(md, k) ==
    LET bad == {i \in Idx(md) : k \notin md[i].keys
                                \/ (IF k = "min" THEN md[i].min ELSE md[i].max).form = "map"}
    IN  IF bad = {} THEN "none"
        ELSE IF k \notin md[MinOf(bad)].keys THEN "KeyError" ELSE "ValueError"

CatalogFieldsError(md) ==
    IF \E i \in Idx(md) : {"cost", "stock"} \ md[i].keys # {} THEN "KeyError"
    ELSE IF ShareError(md, "min") # "none" THEN ShareError(md, "min")
    ELSE ShareError(md, "max")

\* the chemistry loop reads materials_data[m]['chemistry'] of every material
ChemistryFieldsError(md, ai) ==
    IF elements(ai) # {} /\ \E i \in Idx(md) : "chemistry" \notin md[i].keys
      THEN "KeyError" ELSE "none"

\* the outcome of building the charge model: the exception raised (if any),
\* whether GEKKO(remote=False) was reached, and the seed
BuildCarga(md, ai, sd) ==
    IF CatalogFieldsError(md) # "none"
      THEN [err |-> CatalogFieldsError(md), built |-> FALSE, seed |-> <<>>]
    ELSE IF sd.err # "none"
      THEN [err |-> sd.err, built |-> FALSE, seed |-> <<>>]
    ELSE IF ChemistryFieldsError(md, ai) # "none"
      THEN [err |-> ChemistryFieldsError(md, ai), built |-> TRUE, seed |-> sd.val]
    ELSE [err |-> "none", built |-> TRUE, seed |-> sd.val]

crear_modelelo(md, ai, W) == BuildCarga(md, ai, solucion_inicial(W, md))

create_optimization_model(md, ai, W) == BuildCarga(md, ai, calc_initial_solution(md, ai, W))

Build(next, b) ==
    /\ built' = b.built
    /\ seed' = b.seed
    /\ error' = b.err
    /\ pc' = IF b.err = "none" THEN next ELSE "raised"
    /\ UNCHANGED <<inputs, solves, solver_exc, vars, ret_x, success, appstatus, totals, table, quimica>>

CrearModelelo ==
    /\ pc = "crear_modelelo"
    /\ Build("calcular_carga", crear_modelelo(materials_data, alloy_info, heat_weight))

CreateOptimizationModel ==
    /\ pc = "create_optimization_model"
    /\ Build("solve_optimization",
             create_optimization_model(materials_data, alloy_info, heat_weight))

(***************************************************************************)
(* calcular_carga / solve_optimization: m.solve() inside try / except.     *)
(***************************************************************************)
\* mutant: no except clause, the solver's exception leaves the function
OnSolveException_Reraise(exc) == [error |-> "Exception", success |-> "unset", ret_x |-> "unset"]

\* except Exception: return False, x
OnSolveException(exc) == [error |-> "none", success |-> "False", ret_x |-> "vars"]

\* return True, x
OnSolveReturn == [error |-> "none", success |-> "True", ret_x |-> "vars"]

AfterSolve(next, r) ==
    /\ error' = r.error
    /\ success' = r.success
    /\ ret_x' = r.ret_x
    /\ pc' = IF r.error = "none" THEN next ELSE "raised"

SolveCarga(next) ==
    /\ solves' = solves + 1
    /\ \/ \* the solver converges
          /\ vars' \in ArgMin(CargaFeasibleSet(materials_data, alloy_info, heat_weight),
                              materials_data)
          /\ appstatus' = 1
          /\ solver_exc' = "none"
          /\ AfterSolve(next, OnSolveReturn)
       \/ \* the solver finds no solution and raises
          /\ CargaFeasibleSet(materials_data, alloy_info, heat_weight) = {}
          /\ vars' \in BestEffort(materials_data)
          /\ appstatus' = 0
          /\ solver_exc' = "infeasible"
          /\ AfterSolve(next, OnSolveException("infeasible"))
       \/ \* the solver call fails for another reason (no executable, iteration
          \* cap, crash) and raises, whatever the problem is
          /\ vars' \in BestEffort(materials_data)
          /\ appstatus' = 0
          /\ solver_exc' = "failure"
          /\ AfterSolve(next, OnSolveException("failure"))
    /\ UNCHANGED <<inputs, built, seed, totals, table, quimica>>

CalcularCarga ==
    /\ pc = "calcular_carga"
    /\ SolveCarga("print_resultados_carga")

SolveOptimization ==
    /\ pc = "solve_optimization"
    /\ SolveCarga("calculate_chemistry_solution")

(***************************************************************************)
(* reports.py                                                              *)
(***************************************************************************)
HasName(md, nm) == \E i \in Idx(md) : md[i].name = nm

\* cost_per_ton = total_cost / (peso_carga/1000) if peso_carga/1000 > 0 else 0
CostPerTon(total_cost, peso) == IF peso > 0 THEN <<total_cost * 1000, peso>> ELSE <<0, 1>>

print_resultados_carga(x, md) ==
    LET peso_carga == SumSeq(x)
        total_cost == SumSeq([i \in Idx(md) |-> x[i] * md[i].cost])
    IN  [peso_carga |-> peso_carga, total_cost |-> total_cost,
         cost_per_ton |-> CostPerTon(total_cost, peso_carga)]

\* min_val / max_val of the materials table, in kg/Unit: a percent-string is
\* divided by 100 before it multiplies peso, a bare number is not
ShareKg(raw, peso) ==
    IF raw.form = "pct" THEN ((raw.num * Unit) \div 100) * peso
                        ELSE (raw.num * Unit) * peso

\* percentage = (val/peso)*100 if peso > 0 else 0
Percentage(val, peso) == IF peso > 0 THEN <<val * 100, peso>> ELSE <<0, 1>>

print_table_resultados(x, md) ==
    LET peso == SumSeq(x)
    IN  [i \in Idx(md) |->
            [min_val |-> ShareKg(md[i].min, peso), val |-> x[i],
             max_val |-> ShareKg(md[i].max, peso), costo |-> md[i].cost * x[i],
             percentage |-> Percentage(x[i], peso)]]

\* materials_data[nm]
EntryOf(md, nm) == md[CHOOSE i \in Idx(md) : md[i].name = nm]

Failed(e) == [err |-> e, rows |-> <<>>]

\* calcular_quimica_solucion looks the key "chemistry" up in the catalog
\* itself (materials_data["chemistry"]["min"]), takes the keys of what it
\* finds there as elementos, pairs x[i] with materials_data[elementos[i]] and
\* divides the sum by peso = sum of x.  The result of an element is
\* <<sum, peso>>, in the catalog's own (percent) units.
calcular_quimica_solucion(x, md) ==
    IF ~HasName(md, "chemistry") THEN Failed("KeyError")
    ELSE IF "min" \notin EntryOf(md, "chemistry").keys THEN Failed("KeyError")
    ELSE IF EntryOf(md, "chemistry").min.form # "map" THEN Failed("AttributeError")
    ELSE
      LET elementos == EntryOf(md, "chemistry").min.order
          peso == SumSeq(x)
          bad == {i \in Idx(elementos) :
                     \/ i > Len(x)
                     \/ ~HasName(md, elementos[i])
                     \/ "chemistry" \notin EntryOf(md, elementos[i]).keys}
          mix(e, lowest) ==
              SumSeq([i \in Idx(elementos) |->
                  x[i] * Get(IF lowest THEN EntryOf(md, elementos[i]).chem_min
                                       ELSE EntryOf(md, elementos[i]).chem_max, e)])
      IN  IF elementos = <<>> THEN [err |-> "none", rows |-> <<>>]
          ELSE IF bad # {}
            THEN Failed(IF MinOf(bad) > Len(x) THEN "IndexError" ELSE "KeyError")
          ELSE IF peso = 0 THEN Failed("ZeroDivisionError")
          ELSE [err |-> "none",
                rows |-> [e \in {elementos[i] : i \in Idx(elementos)} |->
                            [est_min |-> <<mix(e, TRUE), peso>>,
                             est_max |-> <<mix(e, FALSE), peso>>]]]

\* tolerance = 1e-6 ; min_ok = est_min >= (min_spec - tolerance), with
\* est = s/peso and 1e-6 = 1/100 of 1/Unit:  s*100 >= (spec*100 - 1)*peso
quimica_min_ok(est, spec) == est[1] * 100 >= (spec * 100 - 1) * est[2]
quimica_max_ok(est, spec) == est[1] * 100 <= (spec * 100 + 1) * est[2]

\* print_quimica_carga reads the bounds from alloy_data['chemistry'], calls
\* the evaluator and compares its values with the bounds as read
print_quimica_carga(x, md, ai) ==
    IF "chemistry" \notin ai.keys THEN Failed("KeyError")
    ELSE
      LET r == calcular_quimica_solucion(x, md)
      IN  IF r.err # "none" THEN r
          ELSE IF \E e \in elements(ai) : e \notin DOMAIN r.rows THEN Failed("KeyError")
          ELSE [err |-> "none",
                rows |-> [e \in elements(ai) |->
                    [est_min |-> r.rows[e].est_min, est_max |-> r.rows[e].est_max,
                     status |-> IF /\ quimica_min_ok(r.rows[e].est_min, ai.min[e])
                                   /\ quimica_max_ok(r.rows[e].est_max, ai.max[e])
                                THEN "OK" ELSE "Out"]]]

PrintResultadosCarga ==
    /\ pc = "print_resultados_carga"
    /\ totals' = <<print_resultados_carga(vars, materials_data)>>
    /\ pc' = "print_table_resultados"
    /\ UNCHANGED <<inputs, built, solves, solver_exc, seed, vars, ret_x, success, appstatus,
                   error, table, quimica>>

PrintTableResultados ==
    /\ pc = "print_table_resultados"
    /\ table' = <<print_table_resultados(vars, materials_data)>>
    /\ pc' = "print_quimica_carga"
    /\ UNCHANGED <<inputs, built, solves, solver_exc, seed, vars, ret_x, success, appstatus,
                   error, totals, quimica>>

PrintQuimicaCarga ==
    /\ pc = "print_quimica_carga"
    /\ LET r == print_quimica_carga(vars, materials_data, alloy_info)
       IN  /\ error' = r.err
           /\ quimica' = IF r.err = "none" THEN <<r.rows>> ELSE <<>>
           /\ pc' = IF r.err = "none" THEN "done" ELSE "raised"
    /\ UNCHANGED <<inputs, built, solves, solver_exc, seed, vars, ret_x, success, appstatus,
                   totals, table>>

(***************************************************************************)
(* eaf_charge_gekko.py: evaluation and reports.                            *)
(***************************************************************************)
\* solution_chemistry_min / max of every element, as <<sum, heat_weight>>
calculate_chemistry_solution(x, md, ai, W) ==
    [e \in elements(ai) |->
        [est_min |-> <<min_mix_sum(md, e, x), W>>,
         est_max |-> <<max_mix_sum(md, e, x), W>>]]

print_charge_results(x, md) ==
    LET peso == SumSeq(x)
        total_cost == SumSeq([i \in Idx(md) |-> x[i] * md[i].cost])
    IN  [peso_carga |-> peso, total_cost |-> total_cost,
         cost_per_ton |-> CostPerTon(total_cost, peso)]

\* min_val = mat_min[i]*heat_weight ; percentage = (val/heat_weight)*100
print_materials_table(x, md, W) ==
    [i \in Idx(md) |->
        [min_val |-> mat_min(md)[i] * W, val |-> x[i],
         max_val |-> mat_max(md)[i] * W, costo |-> md[i].cost,
         percentage |-> <<x[i] * 100, W>>]]

\* tolerance = 1e-6 on the fraction scale, Unit/(100*100*100) of 1/Unit:
\* est >= spec - tolerance, with est = s/W, is  s*100 >= (spec*100 - 1)*W
min_ok(est, spec) == est[1] * 100 >= (spec * 100 - 1) * est[2]

\* mutant: the upper comparison left out of the verdict
max_ok_Ignored(est, spec) == TRUE

max_ok(est, spec) == est[1] * 100 <= (spec * 100 + 1) * est[2]

print_chemistry_table(ai, chem) ==
    [e \in elements(ai) |->
        IF /\ min_ok(chem[e].est_min, normalize_chemistry_value(ai.min[e]))
           /\ max_ok(chem[e].est_max, normalize_chemistry_value(ai.max[e]))
        THEN "OK" ELSE "Out"]

CalculateChemistrySolution ==
    /\ pc = "calculate_chemistry_solution"
    /\ quimica' = <<calculate_chemistry_solution(vars, materials_data, alloy_info, heat_weight)>>
    /\ pc' = "print_charge_results"
    /\ UNCHANGED <<inputs, built, solves, solver_exc, seed, vars, ret_x, success, appstatus,
                   error, totals, table>>

PrintChargeResults ==
    /\ pc = "print_charge_results"
    /\ totals' = <<print_charge_results(vars, materials_data)>>
    /\ pc' = "print_materials_table"
    /\ UNCHANGED <<inputs, built, solves, solver_exc, seed, vars, ret_x, success, appstatus,
                   error, table, quimica>>

PrintMaterialsTable ==
    /\ pc = "print_materials_table"
    /\ table' = <<print_materials_table(vars, materials_data, heat_weight)>>
    /\ pc' = "print_chemistry_table"
    /\ UNCHANGED <<inputs, built, solves, solver_exc, seed, vars, ret_x, success, appstatus,
                   error, totals, quimica>>

PrintChemistryTable ==
    /\ pc = "print_chemistry_table"
    /\ quimica' = <<quimica[1], print_chemistry_table(alloy_info, quimica[1])>>
    /\ pc' = "done"
    /\ UNCHANGED <<inputs, built, solves, solver_exc, seed, vars, ret_x, success, appstatus,
                   error, totals, table>>

(***************************************************************************)
(* calcular_adicion_optima and the part of main that uses its result.      *)
(***************************************************************************)
\* cost and stock are read of every material before the model is created
AdicionFieldsError(md) ==
    IF \E i \in Idx(md) : {"cost", "stock"} \ md[i].keys # {}
      THEN "KeyError" ELSE "none"

BuildAdicion(md, ai) ==
    IF AdicionFieldsError(md) # "none"
      THEN [err |-> AdicionFieldsError(md), built |-> FALSE, seed |-> <<>>]
    ELSE IF ChemistryFieldsError(md, ai) # "none"
      THEN [err |-> ChemistryFieldsError(md, ai), built |-> TRUE, seed |-> <<>>]
    ELSE [err |-> "none", built |-> TRUE, seed |-> <<>>]

CalcularAdicionOptima ==
    /\ pc = "calcular_adicion_optima"
    /\ Build("adicion_solve", BuildAdicion(materials_data, alloy_info))

\* x = m.solve(disp=True) ; return m, x : solve() returns nothing, so the
\* name x is rebound to None
AdicionReturn == [error |-> "none", success |-> "unset", ret_x |-> "None"]

\* no try / except around m.solve(): the solver's exception leaves the function
AdicionException(exc) == [error |-> "Exception", success |-> "unset", ret_x |-> "unset"]

AdicionSolve ==
    /\ pc = "adicion_solve"
    /\ solves' = solves + 1
    /\ \/ /\ vars' \in ArgMin(AdicionFeasibleSet(materials_data, alloy_info,
                                                 colada_peso, colada_quimica),
                              materials_data)
          /\ appstatus' = 1
          /\ solver_exc' = "none"
          /\ AfterSolve("main_adicion", AdicionReturn)
       \/ /\ AdicionFeasibleSet(materials_data, alloy_info, colada_peso, colada_quimica) = {}
          /\ vars' \in BestEffort(materials_data)
          /\ appstatus' = 0
          /\ solver_exc' = "infeasible"
          /\ AfterSolve("main_adicion", AdicionException("infeasible"))
       \/ /\ vars' \in BestEffort(materials_data)
          /\ appstatus' = 0
          /\ solver_exc' = "failure"
          /\ AfterSolve("main_adicion", AdicionException("failure"))
    /\ UNCHANGED <<inputs, built, seed, totals, table, quimica>>

\* if m.options.APPSTATUS == 1: get_val(x[i]) for every material, then the
\* materials table; indexing None raises TypeError
MainAdicion ==
    /\ pc = "main_adicion"
    /\ IF appstatus = 1 /\ ret_x = "None" /\ n_materials(materials_data) > 0
         THEN /\ error' = "TypeError"
              /\ pc' = "raised"
              /\ UNCHANGED <<totals, table>>
         ELSE /\ error' = error
              /\ pc' = "done"
              /\ IF appstatus = 1
                   THEN /\ totals' = <<print_resultados_carga(vars, materials_data)>>
                        /\ table' = <<print_table_resultados(vars, materials_data)>>
                   ELSE UNCHANGED <<totals, table>>
    /\ UNCHANGED <<inputs, built, solves, solver_exc, seed, vars, ret_x, success, appstatus, quimica>>

(***************************************************************************)
(* charge_gekko_example.py: module-level script.                           *)
(***************************************************************************)
\* lines 18-49: the catalog fields, the model, the start value
\* heat_weight/len(materials) of every variable, the equations
BuildExample(md, ai, W) ==
    IF CatalogFieldsError(md) # "none"
      THEN [err |-> CatalogFieldsError(md), built |-> FALSE, seed |-> <<>>]
    ELSE IF Len(md) = 0
      THEN [err |-> "none", built |-> TRUE, seed |-> <<>>]
    ELSE IF elements(ai) # {} /\ \E i \in Idx(md) : "chemestry" \notin md[i].keys
      THEN [err |-> "KeyError", built |-> TRUE,
            seed |-> [i \in Idx(md) |-> <<W, Len(md)>>]]
    ELSE [err |-> "none", built |-> TRUE, seed |-> [i \in Idx(md) |-> <<W, Len(md)>>]]

ExampleBuild ==
    /\ pc = "example_build"
    /\ Build("example_solve", BuildExample(materials_data, alloy_info, heat_weight))

\* m.solve(disp=True) at module level: an exception ends the script
ExampleSolve ==
    /\ pc = "example_solve"
    /\ solves' = solves + 1
    /\ \/ /\ vars' \in ArgMin(ExampleFeasibleSet(materials_data, alloy_info, heat_weight),
                              materials_data)
          /\ appstatus' = 1
          /\ solver_exc' = "none"
          /\ AfterSolve("example_report", [error |-> "none", success |-> "unset",
                                           ret_x |-> "vars"])
       \/ /\ ExampleFeasibleSet(materials_data, alloy_info, heat_weight) = {}
          /\ vars' \in BestEffort(materials_data)
          /\ appstatus' = 0
          /\ solver_exc' = "infeasible"
          /\ AfterSolve("example_report", AdicionException("infeasible"))
       \/ /\ vars' \in BestEffort(materials_data)
          /\ appstatus' = 0
          /\ solver_exc' = "failure"
          /\ AfterSolve("example_report", AdicionException("failure"))
    /\ UNCHANGED <<inputs, built, seed, totals, table, quimica>>

\* lines 63-68: solution_chemistry_min / max, as <<sum, heat_weight>>
example_chemistry_solution(x, md, ai, W) ==
    [e \in elements(ai) |->
        [est_min |-> <<example_min_mix_sum(md, e, x), W>>,
         est_max |-> <<example_max_mix_sum(md, e, x), W>>]]

\* lines 78-92: the assignment, its mass and cost, the materials table
example_totals(x, md) ==
    [peso_carga |-> SumSeq(x),
     total_cost |-> SumSeq([i \in Idx(md) |-> x[i] * md[i].cost])]

example_materials_table(x, md, W) ==
    [i \in Idx(md) |->
        [min_val |-> mat_min(md)[i] * W, val |-> x[i],
         max_val |-> mat_max(md)[i] * W, costo |-> md[i].cost]]

ExampleReport ==
    /\ pc = "example_report"
    /\ quimica' = <<example_chemistry_solution(vars, materials_data, alloy_info,
                                               heat_weight)>>
    /\ totals' = <<example_totals(vars, materials_data)>>
    /\ table' = <<example_materials_table(vars, materials_data, heat_weight)>>
    /\ pc' = "done"
    /\ UNCHANGED <<inputs, built, solves, solver_exc, seed, vars, ret_x, success,
                   appstatus, error>>

(***************************************************************************)
(* The scripts.                                                            *)
(***************************************************************************)
Next ==
    \/ CrearModelelo
    \/ CalcularCarga
    \/ PrintResultadosCarga
    \/ PrintTableResultados
    \/ PrintQuimicaCarga
    \/ CreateOptimizationModel
    \/ SolveOptimization
    \/ CalculateChemistrySolution
    \/ PrintChargeResults
    \/ PrintMaterialsTable
    \/ PrintChemistryTable
    \/ CalcularAdicionOptima
    \/ AdicionSolve
    \/ MainAdicion
    \/ ExampleBuild
    \/ ExampleSolve
    \/ ExampleReport

Spec == Init /\ [][Next]_vars_all

(***************************************************************************)
(* Properties.                                                             *)
(***************************************************************************)
IsCarga == prog \in {"calculo", "gekko"}

Optimal == IsCarga /\ success = "True"

\* total cost of an assignment: sum of mass times unit cost
TotalCost(md, x) == SumSeq([i \in Idx(md) |-> x[i] * md[i].cost])

\* C1: every assignment the charge builder admits as feasible, and so every
\* assignment returned with status Optimal, has total mass equal to
\* target_weight.
C1_TotalMass ==
    IsCarga =>
        /\ pc \in {"calcular_carga", "solve_optimization"} =>
              \A x \in CargaFeasibleSet(materials_data, alloy_info, heat_weight) :
                  SumSeq(x) = heat_weight
        /\ Optimal => SumSeq(vars) = heat_weight

C1_Witness ==
    /\ Optimal
    /\ Len(vars) = 2
    /\ vars[1] > 0 /\ vars[2] > 0
    /\ vars[1] + vars[2] = heat_weight

\* C2: in every Optimal charge-design result every material's mass lies
\* between fraction_min * target_weight and the smaller of its stock and
\* fraction_max * target_weight.
C2_MassBounds ==
    Optimal =>
        \A i \in Idx(materials_data) :
            /\ ParseFraction(materials_data[i].min) * heat_weight <= vars[i] * Unit
            /\ vars[i] <= materials_data[i].stock
            /\ vars[i] * Unit <= ParseFraction(materials_data[i].max) * heat_weight

\* a material with a floor above 0 and a cap below 100% sits on its cap
C2_Witness ==
    /\ Optimal
    /\ \E i \in Idx(materials_data) :
          /\ materials_data[i].min.num > 0
          /\ materials_data[i].max.num < 100
          /\ vars[i] * Unit = ParseFraction(materials_data[i].max) * heat_weight

\* C3: in every Optimal charge-design result both low_mix(e) and high_mix(e)
\* lie within [spec_min(e), spec_max(e)] for every element of the spec, a
\* material without the element contributing 0.
C3_ChemistryInRange ==
    Optimal =>
        \A e \in DOMAIN alloy_info.min :
            LET low == SumSeq([i \in Idx(materials_data) |->
                          vars[i] * (Get(materials_data[i].chem_min, e) \div 100)])
                high == SumSeq([i \in Idx(materials_data) |->
                          vars[i] * (Get(materials_data[i].chem_max, e) \div 100)])
                lo == (alloy_info.min[e] \div 100) * heat_weight
                hi == (alloy_info.max[e] \div 100) * heat_weight
            IN  lo <= low /\ low <= hi /\ lo <= high /\ high <= hi

\* an Optimal result that uses a material lacking an element of the spec
C3_Witness ==
    /\ Optimal
    /\ \E e \in DOMAIN alloy_info.min : \E i \in Idx(materials_data) :
          /\ e \notin DOMAIN materials_data[i].chem_min
          /\ vars[i] > 0
          /\ alloy_info.max[e] < Unit

IsScenarioA ==
    /\ materials_data = ScenarioA.md
    /\ alloy_info = ScenarioA.ai
    /\ heat_weight = ScenarioA.W

\* C4: when a charge-design or addition problem is reported Optimal, no
\* assignment satisfying the constraints the builder imposed costs strictly
\* less; on Scenario A the result is A = 50, B = 50 with cost 150.
C4_CostOptimal ==
    /\ Optimal =>
          \A y \in Grid(materials_data) :
              CargaFeasible(materials_data, alloy_info, heat_weight, y)
                  => TotalCost(materials_data, y) >= TotalCost(materials_data, vars)
    /\ (prog = "adicion" /\ appstatus = 1) =>
          \A y \in Grid(materials_data) :
              AdicionFeasible(materials_data, alloy_info, colada_peso, colada_quimica, y)
                  => TotalCost(materials_data, y) >= TotalCost(materials_data, vars)
    /\ IsScenarioA =>
          CargaFeasibleSet(materials_data, alloy_info, heat_weight) = {<<50, 50>>}
    /\ (Optimal /\ IsScenarioA) =>
          vars = <<50, 50>> /\ TotalCost(materials_data, vars) = 150

C4_Witness ==
    /\ Optimal
    /\ IsScenarioA
    /\ vars = <<50, 50>>
    /\ TotalCost(materials_data, vars) = 150

\* the measured chemistry, read in percent like the target bounds, lies
\* within the target for every element
Compliant(q, ai) == \A e \in DOMAIN ai.min : ai.min[e] <= Get(q, e) /\ Get(q, e) <= ai.max[e]

ZeroAddition == [i \in Idx(materials_data) |-> 0]

\* C5: when the measured chemistry already lies within the target for every
\* element and every unit cost is positive, the all-zero addition is feasible
\* for the problem calcular_adicion_optima builds and is its optimum, cost 0.
C5_ZeroAdditionOptimal ==
    (/\ prog = "adicion"
     /\ solves = 1
     /\ solver_exc # "failure"
     /\ Compliant(colada_quimica, alloy_info)
     /\ \A i \in Idx(materials_data) : materials_data[i].cost > 0)
        => /\ AdicionFeasible(materials_data, alloy_info, colada_peso,
                              colada_quimica, ZeroAddition)
           /\ appstatus = 1
           /\ vars = ZeroAddition
           /\ TotalCost(materials_data, vars) = 0

C7_AdicionResult ==
    (prog = "adicion" /\ solves = 1 /\ solver_exc # "failure") =>
        /\ error = "none"
        /\ ret_x = "vars"

\* no material of the catalog is in the nominal recipe of the running script
NoNominalMass(md) ==
    \A i \in Idx(md) :
        md[i].name \notin DOMAIN (IF prog = "gekko" THEN nominal_composition_gekko
                                                    ELSE nominal_composition)

\* C8: when no material of the catalog is in the nominal recipe the seeding
\* fails with EmptySeedError, before any model is created or solved.
C8_EmptySeedError ==
    (/\ IsCarga
     /\ pc \notin {"crear_modelelo", "create_optimization_model"}
     /\ CatalogFieldsError(materials_data) = "none"
     /\ NoNominalMass(materials_data))
        => error = "EmptySeedError" /\ ~built /\ solves = 0

InvalidEntry(md) ==
    \E i \in Idx(md) :
        \/ {"cost", "stock", "chemistry"} \ md[i].keys # {}
        \/ /\ {"min", "max"} \subseteq md[i].keys
           /\ md[i].min.num > md[i].max.num

\* C9: a material missing its cost, stock or chemistry, or with fraction_min
\* above fraction_max, is rejected with InvalidCatalogEntry while the charge
\* problem is constructed, and the solver is never invoked.
C9_InvalidCatalogEntry ==
    (/\ IsCarga
     /\ pc \notin {"crear_modelelo", "create_optimization_model"}
     /\ InvalidEntry(materials_data))
        => error = "InvalidCatalogEntry" /\ solves = 0

\* C10: for an assignment of total mass 0 the totals, materials and
\* chemistry reports all complete: cost per unit 0, every percentage 0, and
\* the evaluator's low_mix / high_mix computation does not fail.
C10_ZeroWeightGuard ==
    (/\ prog \in {"calculo", "reports"}
     /\ ret_x = "vars"
     /\ SumSeq(vars) = 0
     /\ pc \in {"done", "raised"})
        => /\ error = "none"
           /\ quimica # <<>>
           /\ prog = "calculo" =>
                 /\ totals # <<>> /\ totals[1].cost_per_ton[1] = 0
                 /\ table # <<>>
                 /\ \A i \in Idx(materials_data) : table[1][i].percentage[1] = 0

\* the nominal recipe of the running script
Recipe == IF prog = "gekko" THEN nominal_composition_gekko ELSE nominal_composition

InRecipe(md) == {i \in Idx(md) : md[i].name \in DOMAIN Recipe}

\* the seeding function of the running script has been called on a catalog
\* whose entries it can read
Seeded ==
    /\ IsCarga
    /\ pc \notin {"crear_modelelo", "create_optimization_model"}
    /\ CatalogFieldsError(materials_data) = "none"
    /\ prog = "gekko" => ChemistryFieldsError(materials_data, alloy_info) = "none"
    /\ heat_weight > 0

\* one entry per material, 0 outside the recipe, proportional to the nominal
\* fractions inside it, total target_weight (entries are <<num, den>>)
SeedAsClaimed ==
    /\ error \notin {"ZeroDivisionError"}
    /\ Len(seed) = Len(materials_data)
    /\ \A i \in Idx(seed) : seed[i][2] > 0 /\ seed[i][2] = seed[1][2] /\ seed[i][1] >= 0
    /\ \A i \in Idx(seed) \ InRecipe(materials_data) : seed[i][1] = 0
    /\ \A i \in InRecipe(materials_data) : \A j \in InRecipe(materials_data) :
          Ratio(seed[i][1], seed[j][1])
              = Ratio(Recipe[materials_data[i].name], Recipe[materials_data[j].name])
    /\ SumSeq([i \in Idx(seed) |-> seed[i][1]]) = heat_weight * seed[1][2]

InBand(est, lo, hi, tol100) ==
    /\ est[1] * 100 >= (lo * 100 - tol100) * est[2]
    /\ est[1] * 100 <= (hi * 100 + tol100) * est[2]

\* C12: the verdict of an element is OK exactly when both the realized
\* low_mix and the realized high_mix lie within [spec_min - 1e-6,
\* spec_max + 1e-6] on the weight-fraction scale, and Out otherwise, for any
\* catalog; on the fraction scale 1e-6 is 1/100 of 1/Unit, on the percent
\* scale of reports.py it is 1/Unit.
C12_VerdictBothInRange ==
    /\ (prog = "gekko" /\ pc = "done") =>
          \A e \in DOMAIN quimica[2] :
              quimica[2][e] = "OK" <=>
                  /\ InBand(quimica[1][e].est_min,
                            normalize_chemistry_value(alloy_info.min[e]),
                            normalize_chemistry_value(alloy_info.max[e]), 1)
                  /\ InBand(quimica[1][e].est_max,
                            normalize_chemistry_value(alloy_info.min[e]),
                            normalize_chemistry_value(alloy_info.max[e]), 1)
    /\ (prog \in {"calculo", "reports"} /\ pc = "done" /\ quimica # <<>>) =>
          \A e \in DOMAIN quimica[1] :
              quimica[1][e].status = "OK" <=>
                  /\ InBand(quimica[1][e].est_min, alloy_info.min[e], alloy_info.max[e], 100)
                  /\ InBand(quimica[1][e].est_max, alloy_info.min[e], alloy_info.max[e], 100)

\* the same share written the other way: "5%" for 5 and 5 for "5%"
OtherForm(v) == [v EXCEPT !.form = IF @ = "pct" THEN "num" ELSE "pct"]

Respelled(md) ==
    [i \in Idx(md) |-> [md[i] EXCEPT !.min = OtherForm(@), !.max = OtherForm(@)]]

\* C13: a fraction_min / fraction_max written as a percent-string and as
\* the bare number denote the same fraction: writing every share of the
\* catalog the other way leaves the builder's per-material fraction
\* constraints and the Min (kg) / Max (kg) columns of the materials report
\* unchanged.
C13_PercentStringOrNumber ==
    (IsCarga /\ table # <<>>) =>
        /\ mat_min(Respelled(materials_data)) = mat_min(materials_data)
        /\ mat_max(Respelled(materials_data)) = mat_max(materials_data)
        /\ \A y \in Grid(materials_data) :
              RestriccionPorcentaje(Respelled(materials_data), heat_weight, y)
                  <=> RestriccionPorcentaje(materials_data, heat_weight, y)
        /\ LET other == IF prog = "calculo"
                           THEN print_table_resultados(vars, Respelled(materials_data))
                           ELSE print_materials_table(vars, Respelled(materials_data),
                                                      heat_weight)
           IN  \A i \in Idx(materials_data) :
                   /\ table[1][i].min_val = other[i].min_val
                   /\ table[1][i].max_val = other[i].max_val

\* C14: an unexpected error of the solver call is told apart from
\* infeasibility: it is never returned as the status Infeasible (flag False
\* with the variables), and when the solver did report infeasibility the
\* status is Infeasible.
C14_SolverFailureDistinguished ==
    (IsCarga /\ solves = 1) =>
        /\ solver_exc = "infeasible" => (success = "False" /\ ret_x = "vars")
        /\ solver_exc = "failure" => success # "False"

\* the specification without one of its optional keys
WithoutKey(ai, k) == [ai EXCEPT !.keys = @ \ {k}]

Tagged(md, tag) == {i \in Idx(md) : Lower(TypeOf(md[i])) = tag}

FloorApplies(md, ai) ==
    "min_acero_pct" \in ai.keys /\ ai.min_acero_pct > 0 /\ Tagged(md, "acero") # {}

CeilingApplies(md, ai) ==
    "max_returns" \in ai.keys /\ Tagged(md, "returns") # {}

FloorHolds(md, ai, W, x) ==
    SumSeq([i \in Idx(md) |-> IF i \in Tagged(md, "acero") THEN x[i] ELSE 0]) * Unit
        >= ai.min_acero_pct * W

CeilingHolds(md, ai, W, x) ==
    SumSeq([i \in Idx(md) |-> IF i \in Tagged(md, "returns") THEN x[i] ELSE 0]) * Unit
        <= ai.max_returns * W

\* C15: the category floor is part of the charge problem exactly when
\* min_acero_pct is set (> 0) and some material is tagged 'acero' (in any
\* letter case), the ceiling exactly when max_returns is set and some
\* material is tagged 'returns'; a floor or ceiling without a matching
\* material leaves the feasible set as it is without it, and every Optimal
\* result satisfies each category constraint that applies.
C15_CategoryConditional ==
    /\ (IsCarga /\ pc \in {"calcular_carga", "solve_optimization"}) =>
          LET md == materials_data
              ai == alloy_info
              W == heat_weight
              F == CargaFeasibleSet(md, ai, W)
              NoFloor == CargaFeasibleSet(md, WithoutKey(ai, "min_acero_pct"), W)
              NoCeiling == CargaFeasibleSet(md, WithoutKey(ai, "max_returns"), W)
          IN  /\ F = IF FloorApplies(md, ai)
                       THEN {x \in NoFloor : FloorHolds(md, ai, W, x)} ELSE NoFloor
              /\ F = IF CeilingApplies(md, ai)
                       THEN {x \in NoCeiling : CeilingHolds(md, ai, W, x)} ELSE NoCeiling
    /\ Optimal =>
          /\ FloorApplies(materials_data, alloy_info)
                => FloorHolds(materials_data, alloy_info, heat_weight, vars)
          /\ CeilingApplies(materials_data, alloy_info)
                => CeilingHolds(materials_data, alloy_info, heat_weight, vars)

\* an Optimal result for a specification with a steel floor on a catalog
\* where no material is tagged 'acero'
C15_Witness ==
    /\ Optimal
    /\ "min_acero_pct" \in alloy_info.keys
    /\ alloy_info.min_acero_pct > 0
    /\ Tagged(materials_data, "acero") = {}
    /\ SumSeq(vars) = heat_weight

\* chemistry_low <= chemistry_high for every material and element
ChemistryOrdered(md) ==
    \A i \in Idx(md) : \A e \in DOMAIN md[i].chem_min \cup DOMAIN md[i].chem_max :
        Get(md[i].chem_min, e) <= Get(md[i].chem_max, e)

\* low_mix(e) <= high_mix(e) and both within [min, max], times total_weight
AdicionBothInRange(md, ai, P, q, x) ==
    \A e \in DOMAIN ai.min :
        LET low == adicion_min_mix_sum(md, P, q, e, x)
            high == adicion_max_mix_sum(md, P, q, e, x)
            lo == (ai.min[e] \div 100) * (P + SumSeq(x))
            hi == (ai.max[e] \div 100) * (P + SumSeq(x))
        IN  low <= high /\ lo <= low /\ low <= hi /\ lo <= high /\ high <= hi

\* every share of the catalog lifted and every category key dropped
Unconstrained(md) == [i \in Idx(md) |-> [md[i] EXCEPT !.min = Num(0), !.max = Num(100)]]

\* C16: in the addition problem, for a catalog with chemistry_low <=
\* chemistry_high, every assignment within [0, stock] that satisfies the two
\* enforced constraints has low_mix <= high_mix and both within [min, max];
\* the per-material fraction bounds and the category keys do not enter the
\* problem.
C16_OmittedRedundant ==
    /\ (prog = "adicion" /\ pc = "adicion_solve" /\ ChemistryOrdered(materials_data)) =>
          \A x \in Grid(materials_data) :
              AdicionQuimica(materials_data, alloy_info, colada_peso, colada_quimica, x)
                  => AdicionBothInRange(materials_data, alloy_info, colada_peso,
                                        colada_quimica, x)
    /\ (prog = "adicion" /\ pc = "adicion_solve") =>
          AdicionFeasibleSet(materials_data, alloy_info, colada_peso, colada_quimica)
              = AdicionFeasibleSet(Unconstrained(materials_data),
                                   [alloy_info EXCEPT !.keys = {}],
                                   colada_peso, colada_quimica)
    /\ (prog = "adicion" /\ appstatus = 1 /\ ChemistryOrdered(materials_data)) =>
          AdicionBothInRange(materials_data, alloy_info, colada_peso, colada_quimica, vars)

\* an optimal addition of positive mass whose low_mix is strictly below its
\* high_mix, for a catalog with fraction bounds the charge builder would
\* enforce and a specification with both category keys
C16_Witness ==
    /\ prog = "adicion"
    /\ appstatus = 1
    /\ ChemistryOrdered(materials_data)
    /\ SumSeq(vars) > 0
    /\ alloy_info.keys = {"min_acero_pct", "max_returns"}
    /\ \E e \in DOMAIN alloy_info.min :
          adicion_min_mix_sum(materials_data, colada_peso, colada_quimica, e, vars)
              < adicion_max_mix_sum(materials_data, colada_peso, colada_quimica, e, vars)

\* the four chemistry constraints of the charge builder for one element
BuilderChemistry(md, ai, W, e, x) ==
    LET low == SumSeq([i \in Idx(md) |-> x[i] * (Get(md[i].chem_min, e) \div 100)])
        high == SumSeq([i \in Idx(md) |-> x[i] * (Get(md[i].chem_max, e) \div 100)])
        lo == (ai.min[e] \div 100) * W
        hi == (ai.max[e] \div 100) * W
    IN  lo <= low /\ low <= hi /\ lo <= high /\ high <= hi

\* the verdict of the report on values est = <<sum, weight>>, tolerance 0
VerdictNoTolerance(est_min, est_max, lo, hi) ==
    est_min[1] >= lo * est_min[2] /\ est_max[1] <= hi * est_max[2]

\* est = <<sum, weight>> is the builder's mix  builder_sum / W  (scale: the
\* units of est per unit of the builder's)
SameMix(est, builder_sum, W, scale) == est[1] * W = scale * builder_sum * est[2]

\* C17: the low_mix / high_mix the evaluator reports are the values the
\* charge builder constrained (sum over all catalog materials of x_i times
\* the normalized chemistry, over target_weight), so the builder's chemistry
\* constraints hold for an element exactly when its verdict without
\* tolerance is OK; for calculate_chemistry_solution and for
\* calcular_quimica_solucion as main of calculo_carga_eaf calls it.
C17_EvaluatorIsBuilder ==
    /\ (prog = "gekko" /\ quimica # <<>>) =>
          \A e \in DOMAIN alloy_info.min :
              /\ SameMix(quimica[1][e].est_min,
                         min_mix_sum(materials_data, e, vars), heat_weight, 1)
              /\ SameMix(quimica[1][e].est_max,
                         max_mix_sum(materials_data, e, vars), heat_weight, 1)
              /\ BuilderChemistry(materials_data, alloy_info, heat_weight, e, vars)
                    <=> VerdictNoTolerance(quimica[1][e].est_min, quimica[1][e].est_max,
                                           alloy_info.min[e] \div 100,
                                           alloy_info.max[e] \div 100)
    /\ (prog = "calculo" /\ table # <<>> /\ pc \in {"done", "raised"}) =>
          /\ error = "none"
          /\ quimica # <<>>
          /\ \A e \in DOMAIN alloy_info.min :
                /\ SameMix(quimica[1][e].est_min,
                           min_mix_sum(materials_data, e, vars), heat_weight, 100)
                /\ SameMix(quimica[1][e].est_max,
                           max_mix_sum(materials_data, e, vars), heat_weight, 100)
                /\ BuilderChemistry(materials_data, alloy_info, heat_weight, e, vars)
                      <=> VerdictNoTolerance(quimica[1][e].est_min, quimica[1][e].est_max,
                                             alloy_info.min[e], alloy_info.max[e])

IsScenarioB ==
    /\ materials_data = ScenarioB.md
    /\ alloy_info = ScenarioB.ai
    /\ heat_weight = ScenarioB.W

\* every assignment with 0 <= x_i <= stock_i of the scenario's catalog
ScenarioBPoints == [Idx(ScenarioB.md) -> 0..ScenarioB.W]

\* C18: on Scenario B the charge builder's constraint set has no solution
\* (every material's chemistry interval is wider than the target's, so
\* high_mix - low_mix exceeds the target's width whenever the masses sum to
\* target_weight), the returned status is Infeasible, and the chemistry
\* report marks C as Out on the assignment returned and on every other
\* non-negative assignment within the stocks.
C18_ScenarioB ==
    (IsCarga /\ IsScenarioB) =>
        /\ pc \in {"calcular_carga", "solve_optimization"} =>
              CargaFeasibleSet(materials_data, alloy_info, heat_weight) = {}
        /\ \A i \in Idx(materials_data) :
              (materials_data[i].chem_max["C"] \div 100)
                  - (materials_data[i].chem_min["C"] \div 100)
                > (alloy_info.max["C"] \div 100) - (alloy_info.min["C"] \div 100)
        /\ solves = 1 => (success = "False" /\ ret_x = "vars" /\ error # "Exception")
        /\ (prog = "gekko" /\ pc = "done") =>
              /\ quimica[2]["C"] = "Out"
              /\ \A x \in ScenarioBPoints :
                    print_chemistry_table(alloy_info,
                        calculate_chemistry_solution(x, materials_data, alloy_info,
                                                     heat_weight))["C"] = "Out"

\* the report of eaf_charge_gekko after the infeasible solve of Scenario B
C18_Witness ==
    /\ prog = "gekko"
    /\ IsScenarioB
    /\ pc = "done"
    /\ solver_exc = "infeasible"
    /\ success = "False"
    /\ SumSeq(vars) > 0
    /\ quimica[2]["C"] = "Out"

\* the addition problem with every percent input normalized, the measured
\* chemistry included
AdicionNormalized(md, ai, P, q, x) ==
    /\ \A i \in Idx(md) : 0 <= x[i] /\ x[i] <= md[i].stock
    /\ \A e \in DOMAIN ai.min :
          LET low == (Get(q, e) \div 100) * P
                       + SumSeq([i \in Idx(md) |-> x[i] * (Get(md[i].chem_min, e) \div 100)])
              high == (Get(q, e) \div 100) * P
                       + SumSeq([i \in Idx(md) |-> x[i] * (Get(md[i].chem_max, e) \div 100)])
          IN  /\ high <= (ai.max[e] \div 100) * (P + SumSeq(x))
              /\ low >= (ai.min[e] \div 100) * (P + SumSeq(x))

\* C19: all quantities that meet in one chemistry inequality are on the
\* same scale: the problem the addition builder poses is the one with every
\* percent input (the measured chemistry included) normalized, the example
\* variant's constraints on percent values admit the assignments the
\* normalized charge constraints admit, and the verdict of reports on
\* percent values is the verdict on the normalized values with the tolerance
\* 1e-6 on the weight-fraction scale.
C19_NormalizationConsistent ==
    /\ (prog = "adicion" /\ pc = "adicion_solve") =>
          \A x \in Grid(materials_data) :
              AdicionFeasible(materials_data, alloy_info, colada_peso, colada_quimica, x)
                  <=> AdicionNormalized(materials_data, alloy_info, colada_peso,
                                        colada_quimica, x)
    /\ (prog = "example" /\ pc = "example_solve") =>
          \A x \in Grid(materials_data) :
              ExampleQuimica(materials_data, alloy_info, heat_weight, x)
                  <=> \A e \in DOMAIN alloy_info.min :
                         BuilderChemistry(materials_data, alloy_info, heat_weight, e, x)
    /\ (prog = "reports" /\ pc = "done" /\ quimica # <<>>) =>
          \A e \in DOMAIN quimica[1] :
              quimica[1][e].status = "OK" <=>
                  /\ quimica[1][e].est_min[1] * 100
                        >= (alloy_info.min[e] * 100 - 100) * quimica[1][e].est_min[2]
                  /\ quimica[1][e].est_max[1] * 100
                        <= (alloy_info.max[e] * 100 + 100) * quimica[1][e].est_max[2]

\* least cost over the feasible set of the charge problem
OptimalCost(md, ai, W) == MinOf({TotalCost(md, y) : y \in CargaFeasibleSet(md, ai, W)})

====
